---- MODULE Spec2Model ----
(***************************************************************************)
(* Model of config/registry_image_pruner/image_pruner/prune_images.py:     *)
(* the pruner of orphaned derived-artifact tags (.sbom/.att/.src/.sig) of  *)
(* a Quay namespace.  The program is sequential; a step of the model is    *)
(* the code between two network calls (or one iteration of a loop that     *)
(* makes no call).  The registry (the server side of the three REST calls) *)
(* is the environment.                                                     *)
(*                                                                         *)
(* Strings the code inspects character by character (tag names, digests)   *)
(* are sequences of one-character strings.  An optional value (Python's    *)
(* None or a value) is the empty sequence or a one-element sequence.       *)
(***************************************************************************)
EXTENDS Integers, Sequences, FiniteSets, TLC

VARIABLES
    token,            \* os.getenv("QUAY_TOKEN"): None, "" or a token
    namespace,        \* --namespace: absent or given
    dry_run,          \* --dry-run
    repo_pages,       \* registry: the namespace's repository listing, page by page
    registry,         \* registry: the active tags of every repository
    registry0,        \* history: the registry when the process started
    srv_served,       \* registry: entries of the tag listing in progress served so far
    pc,               \* where main() is
    error,            \* the exception that ended main(), if any
    next_page,        \* fetch_image_repos: next_page (line 112/136)
    json_next_page,   \* fetch_image_repos: json_data.get("next_page") of the batch yielded
    image_repos,      \* main: the batch the generator yielded (line 147)
    repo_idx,         \* process_repositories: position of `for repo in repos`
    counter,          \* processed_repos_counter (line 21)
    tags_next_page,   \* get_quay_tags: next_page (line 28/58)
    all_tags,         \* get_quay_tags: all_tags, then remove_tags: tags
    tag_idx,          \* remove_tags: position of `for tag in tags`
    calls,            \* history: every network call issued, with its response
    yielded,          \* history: the batches fetch_image_repos yielded
    fetched,          \* history: every list get_quay_tags returned
    log               \* history: the INFO records emitted

vars == <<token, namespace, dry_run, repo_pages, registry, registry0, srv_served, pc, error,
          next_page, json_next_page, image_repos, repo_idx, counter,
          tags_next_page, all_tags, tag_idx, calls, yielded, fetched, log>>

(***************************************************************************)
(* Bounds of the model.                                                    *)
(***************************************************************************)
MaxRepoPages == 3     \* pages of the repository listing
MaxBatch == 2         \* repositories on one page
MaxTags == 3          \* active tags of one repository (program runs)
MaxOverlap == 1       \* entries a tag page may repeat from the page before
PageLimit == 2        \* tags on one page (the code asks for limit=100)
MaxLen == 3           \* length of the tag list handed to remove_tags alone

None == <<>>
Some(v) == <<v>>

Repos == {"r1", "r2"}

(***************************************************************************)
(* Strings as character sequences.                                         *)
(***************************************************************************)
HexDigits == {"0", "1", "2", "3", "4", "5", "6", "7", "8", "9",
              "a", "b", "c", "d", "e", "f"}

Sha256Dash == <<"s", "h", "a", "2", "5", "6", "-">>
Sha256Colon == <<"s", "h", "a", "2", "5", "6", ":">>
DotSbom == <<".", "s", "b", "o", "m">>
DotAtt == <<".", "a", "t", "t">>
DotSrc == <<".", "s", "r", "c">>
DotSig == <<".", "s", "i", "g">>
Suffixes == {DotSbom, DotAtt, DotSrc, DotSig}

Tag(name, digest) == [name |-> name, manifest_digest |-> digest]


(***************************************************************************)
(* remove_tags, line 84: re.compile(r"^sha256-([0-9a-f]+)(\.sbom|\.att|    *)
(* \.src|\.sig)$").match(name).  HexRun is the greedy [0-9a-f]+ (what      *)
(* follows must be ".", which is no hex digit, so the run is maximal);     *)
(* Python's $ also matches before one final newline.  The result is        *)
(* group(1), or None.                                                      *)
(***************************************************************************)
RECURSIVE HexRun(_, _)
HexRun(s, i) ==
    IF i <= Len(s) /\ s[i] \in HexDigits THEN HexRun(s, i + 1) ELSE i

tag_regex_match(name) ==
    IF Len(name) < Len(Sha256Dash) THEN None
    ELSE IF SubSeq(name, 1, Len(Sha256Dash)) # Sha256Dash THEN None
    ELSE LET first == Len(Sha256Dash) + 1
             j == HexRun(name, first)
             rest == SubSeq(name, j, Len(name))
         IN  IF j = first THEN None
             ELSE IF rest \in Suffixes \/ (\E s \in Suffixes : rest = s \o <<"\n">>)
                  THEN Some(SubSeq(name, first, j - 1))
                  ELSE None

\* line 83: image_digests = [image["manifest_digest"] for image in tags]
ImageDigests(tags) == [i \in 1..Len(tags) |-> tags[i].manifest_digest]

\* Python's `x in list`
InList(x, list) == \E i \in 1..Len(list) : list[i] = x

\* as IsOrphaned, with the digest looked for in the tag itself, not in the list
IsOrphaned_own_digest(tag, image_digests) ==
    LET match == tag_regex_match(tag.name)
    IN  /\ match # None
        /\ Sha256Colon \o match[1] # tag.manifest_digest

\* lines 87-88: the tag is selected for removal
IsOrphaned(tag, image_digests) ==
    LET match == tag_regex_match(tag.name)
    IN  /\ match # None
        /\ ~InList(Sha256Colon \o match[1], image_digests)

\* as RemoveMode, with dry_run ignored
RemoveMode_always_delete(dry) == "delete"

\* lines 89-93: what remove_tags does with a selected tag
RemoveMode(dry) == IF dry THEN "log" ELSE "delete"

(***************************************************************************)
(* urllib.request.urlopen returns a response for a 2xx status and raises   *)
(* HTTPError for every other one.                                          *)
(***************************************************************************)
urlopen_raises(status) == status < 200 \/ status >= 300

\* lines 42-44 and 124-126: the outcome of a list call
list_outcome(status) ==
    IF urlopen_raises(status) THEN "HTTPError"
    ELSE IF status # 200 THEN "RuntimeError"
    ELSE "ok"

\* as delete_image_tag, with every HTTPError ignored
delete_image_tag_swallow(status) ==
    IF urlopen_raises(status) THEN "ok"
    ELSE IF status # 200 /\ status # 204 THEN "RuntimeError" ELSE "ok"

\* as delete_image_tag, with every HTTPError raised again
delete_image_tag_raise_404(status) ==
    IF urlopen_raises(status) THEN "HTTPError"
    ELSE IF status # 200 /\ status # 204 THEN "RuntimeError" ELSE "ok"

\* lines 71-79: the outcome of delete_image_tag
delete_image_tag(status) ==
    IF urlopen_raises(status)
    THEN IF status # 404 THEN "HTTPError" ELSE "ok"
    ELSE IF status # 200 /\ status # 204 THEN "RuntimeError" ELSE "ok"

\* as config_error, with `token is None` for `not token`
config_error_none_only(tok, ns) ==
    IF tok = None THEN "ValueError"
    ELSE IF ns = None THEN "SystemExit"
    ELSE "ok"

\* lines 141-145: main's checks before the first call
config_error(tok, ns) ==
    IF tok = None \/ tok = Some("") THEN "ValueError"
    ELSE IF ns = None THEN "SystemExit"
    ELSE "ok"

\* line 48: all_tags.extend(tags)
extend(list, tags) == list \o tags

\* lines 50-60: get_quay_tags asks for another page
tags_continue(tags, additional) == tags # <<>> /\ additional

\* as tags_page_after, without the increment
tags_page_same(page) == page

\* line 58: next_page = page + 1
tags_page_after(page) == page + 1

\* as repos_loop_has_next, leaving out the last repository
repos_loop_skips_last(idx, repos) == idx < Len(repos)

\* line 99: `for repo in repos` has a next element
repos_loop_has_next(idx, repos) == idx <= Len(repos)

\* as tags_loop_has_next, leaving out the last tag
tags_loop_skips_last(idx, tags) == idx < Len(tags)

\* line 85: `for tag in tags` has a next element
tags_loop_has_next(idx, tags) == idx <= Len(tags)

\* line 130: fetch_image_repos ends on an empty batch
repos_batch_ends(repos) == repos = <<>>

\* line 136: fetch_image_repos ends when the response has no cursor
repos_cursor_ends(cursor) == cursor = None

\* as repos_request_cursor, with the cursor never sent
repos_request_no_cursor(np) == None

\* line 117: the cursor of the next request
repos_request_cursor(np) == np

(***************************************************************************)
(* The inputs: tag names and digests, tag lists, repository listings.      *)
(***************************************************************************)
Name_latest == <<"l", "a", "t", "e", "s", "t">>
Name_a_sbom == Sha256Dash \o <<"a">> \o DotSbom
Name_b_sig == Sha256Dash \o <<"b">> \o DotSig
Name_ab_src == Sha256Dash \o <<"a", "b">> \o DotSrc
Name_b_att == Sha256Dash \o <<"b">> \o DotAtt
Name_c_att == Sha256Dash \o <<"c">> \o DotAtt
Name_upper == Sha256Dash \o <<"A">> \o DotAtt           \* upper-case hex
Name_nohex == Sha256Dash \o DotSig                      \* no hex digit
Name_tail == Sha256Dash \o <<"a">> \o DotSbom \o <<"x">>   \* text after the suffix
Name_head == <<"x">> \o Sha256Dash \o <<"a">> \o DotAtt    \* text before sha256-

Digest_a == Sha256Colon \o <<"a">>
Digest_b == Sha256Colon \o <<"b">>
Digest_c == Sha256Colon \o <<"c">>
Digest_d == Sha256Colon \o <<"d">>
Digest_ab == Sha256Colon \o <<"a", "b">>

\* Sequences over S of length at most n whose elements have distinct names
DistinctNames(list) ==
    \A i, j \in 1..Len(list) : i # j => list[i].name # list[j].name

ListsOver(S, n) ==
    {list \in UNION {[1..k -> S] : k \in 0..n} : DistinctNames(list)}

\* The tags a repository of a program run may hold: in r1 a chain of derived
\* tags (the .sig of the .sbom of a manifest), in r2 a plain tag and two
\* derived tags
RunTags(repo) ==
    IF repo = "r1"
    THEN {Tag(Name_a_sbom, Digest_b), Tag(Name_b_sig, Digest_c),
          Tag(Name_c_att, Digest_d)}
    ELSE {Tag(Name_latest, Digest_b), Tag(Name_a_sbom, Digest_d),
          Tag(Name_b_sig, Digest_d)}
RunTagLists(repo) == ListsOver(RunTags(repo), MaxTags)

\* The tags remove_tags is tried on alone
DetectNames == {Name_latest, Name_a_sbom, Name_b_att, Name_ab_src, Name_upper,
                Name_nohex, Name_tail, Name_head}
DetectTags == {Tag(n, d) : n \in DetectNames, d \in {Digest_a, Digest_ab}}
DetectLists == ListsOver(DetectTags, MaxLen)

\* A repository listing: pages of repository names, no repository twice
Batches == UNION {[1..k -> Repos] : k \in 0..MaxBatch}
Flatten(pages) ==
    LET F[i \in 0..Len(pages)] == IF i = 0 THEN <<>> ELSE F[i - 1] \o pages[i]
    IN  F[Len(pages)]
NoRepeat(seq) == \A i, j \in 1..Len(seq) : i # j => seq[i] # seq[j]
Listings ==
    {pages \in UNION {[1..k -> Batches] : k \in 1..MaxRepoPages} :
        NoRepeat(Flatten(pages))}

(***************************************************************************)
(* The registry's side of the three calls.                                 *)
(***************************************************************************)
ListStatuses == {200, 202, 500}

\* The cursor the registry hands out for page i of the repository listing
CursorOf(i) == i + 40
PageOfCursor(cursor) == IF cursor = None THEN 1 ELSE cursor[1] - 40

\* GET /repository?namespace=..[&next_page=cursor]
ReposResponse(cursor) ==
    LET i == PageOfCursor(cursor)
    IN  [repositories |-> repo_pages[i],
         next_page |-> IF i < Len(repo_pages) THEN Some(CursorOf(i + 1)) ELSE None]

\* GET /repository/<ns>/<name>/tag/?limit=100&onlyActiveTags=true[&page=n]:
\* the next PageLimit tags of the repository, starting up to MaxOverlap
\* entries before the end of the previous page (the listing moved between
\* the two requests); or a page on which no tag is active.
TagsResponses(tags, served, page) ==
    LET p == IF page = None THEN 1 ELSE page[1]
        Window(lo) ==
            LET hi == IF lo + PageLimit - 1 < Len(tags)
                      THEN lo + PageLimit - 1 ELSE Len(tags)
            IN  [tags |-> SubSeq(tags, lo, hi), page |-> p,
                 has_additional |-> hi < Len(tags), served |-> hi]
    IN  {Window(served + 1 - ov) :
            ov \in {o \in 0..MaxOverlap :
                        o <= served /\ o < PageLimit /\ served < Len(tags)}}
        \cup {[tags |-> <<>>, page |-> p,
               has_additional |-> served < Len(tags), served |-> served]}

HasTag(tags, name) == \E i \in 1..Len(tags) : tags[i].name = name
WithoutTag(tags, name) == SelectSeq(tags, LAMBDA t : t.name # name)

\* DELETE /repository/<ns>/<name>/tag/<tag>: the statuses the registry may
\* answer (200 or 204 when it removes the tag, 404 when there is no such
\* tag, 202 and 500 for a request it did not carry out), and the tags of the
\* repository after the call
DeleteStatuses(tags, name) ==
    IF HasTag(tags, name) THEN {200, 204, 202, 500} ELSE {404, 500}
AfterDelete(tags, name, status) ==
    IF status \in {200, 204} THEN WithoutTag(tags, name) ELSE tags

(***************************************************************************)
(* History records.                                                        *)
(***************************************************************************)
ReposCall(cursor, status, resp) ==
    [op |-> "repos", cursor |-> cursor, status |-> status,
     repositories |-> resp.repositories, next_page |-> resp.next_page]
TagsCall(repo, page, status, resp) ==
    [op |-> "tags", repo |-> repo, page |-> page, status |-> status,
     tags |-> resp.tags, resp_page |-> resp.page,
     has_additional |-> resp.has_additional]
DeleteCall(repo, name, status) ==
    [op |-> "delete", repo |-> repo, tag |-> name, status |-> status]
LogRecord(msg, repo, name) == [msg |-> msg, repo |-> repo, tag |-> name]

NoReposResponse == [repositories |-> <<>>, next_page |-> None]
NoTagsResponse == [tags |-> <<>>, page |-> 0, has_additional |-> FALSE]

(***************************************************************************)
(* Init: the process is started; the registry holds any listing and tags.  *)
(***************************************************************************)
InitLocals ==
    /\ srv_served = 0
    /\ error = None
    /\ next_page = None
    /\ json_next_page = None
    /\ tags_next_page = None
    /\ calls = <<>>
    /\ yielded = <<>>
    /\ log = <<>>

Init ==
    /\ token \in {None, Some(""), Some("secret")}
    /\ namespace \in {None, Some("acme")}
    /\ dry_run \in BOOLEAN
    /\ repo_pages \in Listings
    /\ registry \in [Repos -> UNION {RunTagLists(r) : r \in Repos}]
    /\ \A r \in Repos : registry[r] \in RunTagLists(r)
    /\ \A r \in Repos : ~InList(r, Flatten(repo_pages)) => registry[r] = <<>>
    /\ registry0 = registry
    /\ pc = "main"
    /\ image_repos = <<>>
    /\ repo_idx = 1
    /\ counter = 0
    /\ all_tags = <<>>
    /\ tag_idx = 1
    /\ fetched = <<>>
    /\ InitLocals

(***************************************************************************)
(* main, lines 141-147: the token and the arguments, then the first        *)
(* next() of the generator.                                                *)
(***************************************************************************)
Main ==
    /\ pc = "main"
    /\ IF config_error(token, namespace) # "ok"
       THEN /\ pc' = "failed"
            /\ error' = Some(config_error(token, namespace))
       ELSE /\ pc' = "fetch"
            /\ error' = error
    /\ UNCHANGED <<token, namespace, dry_run, repo_pages, registry0, registry, srv_served,
                   next_page, json_next_page, image_repos, repo_idx, counter,
                   tags_next_page, all_tags, tag_idx, calls, yielded, fetched, log>>

(***************************************************************************)
(* fetch_image_repos, lines 114-134: one request of the generator, up to   *)
(* its yield (then process_repositories starts, line 148), its break or    *)
(* its raise.                                                              *)
(***************************************************************************)
FetchImageRepos ==
    /\ pc = "fetch"
    /\ \E status \in ListStatuses :
        LET cursor == repos_request_cursor(next_page)
            ok == list_outcome(status) = "ok"
            resp == IF ok THEN ReposResponse(cursor) ELSE NoReposResponse
            repos == resp.repositories
        IN  /\ calls' = Append(calls, ReposCall(cursor, status, resp))
            /\ IF ~ok
               THEN /\ pc' = "failed"
                    /\ error' = Some(list_outcome(status))
                    /\ UNCHANGED <<image_repos, json_next_page, yielded, repo_idx>>
               ELSE IF repos_batch_ends(repos)
               THEN /\ pc' = "done"
                    /\ UNCHANGED <<error, image_repos, json_next_page, yielded,
                                   repo_idx>>
               ELSE /\ pc' = "process"
                    /\ image_repos' = repos
                    /\ json_next_page' = resp.next_page
                    /\ yielded' = Append(yielded, repos)
                    /\ repo_idx' = 1
                    /\ error' = error
    /\ UNCHANGED <<token, namespace, dry_run, repo_pages, registry0, registry, srv_served,
                   next_page, counter, tags_next_page, all_tags, tag_idx,
                   fetched, log>>

(***************************************************************************)
(* fetch_image_repos, line 136, resumed when process_repositories has      *)
(* returned: the cursor of the response, or the end of the generator and   *)
(* of main.                                                                *)
(***************************************************************************)
FetchImageReposResume ==
    /\ pc = "process"
    /\ ~repos_loop_has_next(repo_idx, image_repos)
    /\ next_page' = json_next_page
    /\ pc' = IF repos_cursor_ends(json_next_page) THEN "done" ELSE "fetch"
    /\ UNCHANGED <<token, namespace, dry_run, repo_pages, registry0, registry, srv_served,
                   error, json_next_page, image_repos, repo_idx, counter,
                   tags_next_page, all_tags, tag_idx, calls, yielded, fetched, log>>

(***************************************************************************)
(* process_repositories, lines 99-103: the next repository of the batch;   *)
(* get_quay_tags starts (lines 28-31).                                     *)
(***************************************************************************)
ProcessRepositories ==
    /\ pc = "process"
    /\ repos_loop_has_next(repo_idx, image_repos)
    /\ log' = Append(log, LogRecord("Processing repository",
                                    image_repos[repo_idx], Some(counter)))
    /\ counter' = counter + 1
    /\ tags_next_page' = None
    /\ all_tags' = <<>>
    /\ srv_served' = 0
    /\ pc' = "tags"
    /\ UNCHANGED <<token, namespace, dry_run, repo_pages, registry0, registry, error,
                   next_page, json_next_page, image_repos, repo_idx, tag_idx,
                   calls, yielded, fetched>>

(***************************************************************************)
(* get_quay_tags, lines 32-62: one request; then the next one, or the      *)
(* return to process_repositories (lines 105-108, remove_tags line 83).    *)
(***************************************************************************)
GetQuayTags ==
    /\ pc = "tags"
    /\ LET repo == image_repos[repo_idx]
       IN  \E status \in ListStatuses :
           \E resp \in IF list_outcome(status) = "ok"
                       THEN TagsResponses(registry[repo], srv_served, tags_next_page)
                       ELSE {NoTagsResponse} :
            LET list == extend(all_tags, resp.tags)
            IN  /\ calls' = Append(calls, TagsCall(repo, tags_next_page, status, resp))
                /\ IF list_outcome(status) # "ok"
                   THEN /\ pc' = "failed"
                        /\ error' = Some(list_outcome(status))
                        /\ UNCHANGED <<srv_served, tags_next_page, all_tags,
                                       fetched, repo_idx, tag_idx>>
                   ELSE /\ error' = error
                        /\ srv_served' = resp.served
                        /\ all_tags' = list
                        /\ IF tags_continue(resp.tags, resp.has_additional)
                           THEN /\ tags_next_page' = Some(tags_page_after(resp.page))
                                /\ pc' = "tags"
                                /\ UNCHANGED <<fetched, repo_idx, tag_idx>>
                           ELSE /\ tags_next_page' = tags_next_page
                                /\ fetched' = Append(fetched,
                                                [repo |-> repo, tags |-> list])
                                /\ IF list = <<>>
                                   THEN /\ repo_idx' = repo_idx + 1
                                        /\ pc' = "process"
                                        /\ tag_idx' = tag_idx
                                   ELSE /\ repo_idx' = repo_idx
                                        /\ pc' = "remove"
                                        /\ tag_idx' = 1
    /\ UNCHANGED <<token, namespace, dry_run, repo_pages, registry0, registry, next_page,
                   json_next_page, image_repos, counter, yielded, log>>

(***************************************************************************)
(* remove_tags, lines 85-95: one iteration of `for tag in tags`.           *)
(***************************************************************************)
CurrentRepo == image_repos[repo_idx]
CurrentTag == all_tags[tag_idx]

\* lines 87-88 false, or line 94: the tag is kept
RemoveTagsKeep ==
    /\ pc = "remove"
    /\ tags_loop_has_next(tag_idx, all_tags)
    /\ ~IsOrphaned(CurrentTag, ImageDigests(all_tags))
    /\ tag_idx' = tag_idx + 1
    /\ UNCHANGED <<token, namespace, dry_run, repo_pages, registry0, registry, srv_served,
                   pc, error, next_page, json_next_page, image_repos, repo_idx,
                   counter, tags_next_page, all_tags, calls, yielded, fetched, log>>

\* lines 89-90: dry run
RemoveTagsDryRun ==
    /\ pc = "remove"
    /\ tags_loop_has_next(tag_idx, all_tags)
    /\ IsOrphaned(CurrentTag, ImageDigests(all_tags))
    /\ RemoveMode(dry_run) = "log"
    /\ log' = Append(log, LogRecord("should be removed", CurrentRepo,
                                    CurrentTag.name))
    /\ tag_idx' = tag_idx + 1
    /\ UNCHANGED <<token, namespace, dry_run, repo_pages, registry0, registry, srv_served,
                   pc, error, next_page, json_next_page, image_repos, repo_idx,
                   counter, tags_next_page, all_tags, calls, yielded, fetched>>

\* lines 91-93 and delete_image_tag, lines 65-79
RemoveTagsDelete ==
    /\ pc = "remove"
    /\ tags_loop_has_next(tag_idx, all_tags)
    /\ IsOrphaned(CurrentTag, ImageDigests(all_tags))
    /\ RemoveMode(dry_run) = "delete"
    /\ log' = Append(log, LogRecord("Removing", CurrentRepo, CurrentTag.name))
    /\ \E status \in DeleteStatuses(registry[CurrentRepo], CurrentTag.name) :
        /\ calls' = Append(calls, DeleteCall(CurrentRepo, CurrentTag.name, status))
        /\ registry' = [registry EXCEPT ![CurrentRepo] =
                            AfterDelete(@, CurrentTag.name, status)]
        /\ IF delete_image_tag(status) = "ok"
           THEN /\ tag_idx' = tag_idx + 1
                /\ UNCHANGED <<pc, error>>
           ELSE /\ pc' = "failed"
                /\ error' = Some(delete_image_tag(status))
                /\ tag_idx' = tag_idx
    /\ UNCHANGED <<token, namespace, dry_run, repo_pages, registry0, srv_served, next_page,
                   json_next_page, image_repos, repo_idx, counter,
                   tags_next_page, all_tags, yielded, fetched>>

\* the loop of line 85 is over: remove_tags returns, line 99 takes the next repository
RemoveTagsReturn ==
    /\ pc = "remove"
    /\ ~tags_loop_has_next(tag_idx, all_tags)
    /\ repo_idx' = repo_idx + 1
    /\ pc' = "process"
    /\ UNCHANGED <<token, namespace, dry_run, repo_pages, registry0, registry, srv_served,
                   error, next_page, json_next_page, image_repos, counter,
                   tags_next_page, all_tags, tag_idx, calls, yielded, fetched, log>>

RemoveTags ==
    \/ RemoveTagsKeep
    \/ RemoveTagsDryRun
    \/ RemoveTagsDelete
    \/ RemoveTagsReturn

Next ==
    \/ Main
    \/ FetchImageRepos
    \/ FetchImageReposResume
    \/ ProcessRepositories
    \/ GetQuayTags
    \/ RemoveTags

Spec == Init /\ [][Next]_vars

(***************************************************************************)
(* remove_tags alone: it is entered with any tag list of one repository.   *)
(***************************************************************************)
InitDetect ==
    /\ token = Some("secret")
    /\ namespace = Some("acme")
    /\ dry_run \in BOOLEAN
    /\ repo_pages = <<(<<"r1">>)>>
    /\ all_tags \in DetectLists
    /\ registry = [r \in Repos |-> IF r = "r1" THEN all_tags ELSE <<>>]
    /\ registry0 = registry
    /\ pc = "remove"
    /\ image_repos = <<"r1">>
    /\ repo_idx = 1
    /\ counter = 1
    /\ tag_idx = 1
    /\ fetched = <<[repo |-> "r1", tags |-> all_tags]>>
    /\ InitLocals

SpecDetect == InitDetect /\ [][RemoveTags]_vars

(***************************************************************************)
(* What the properties below read off the histories.                       *)
(***************************************************************************)
Names(tags) == [i \in 1..Len(tags) |-> tags[i].name]

ReposCalls == SelectSeq(calls, LAMBDA c : c.op = "repos")
TagsCallsFor(repo) == SelectSeq(calls, LAMBDA c : c.op = "tags" /\ c.repo = repo)
DeleteCalls == SelectSeq(calls, LAMBDA c : c.op = "delete")
DeletesFor(repo) ==
    LET d == SelectSeq(calls, LAMBDA c : c.op = "delete" /\ c.repo = repo)
    IN  [i \in 1..Len(d) |-> d[i].tag]
LoggedFor(msg, repo) ==
    LET l == SelectSeq(log, LAMBDA e : e.msg = msg /\ e.repo = repo)
    IN  [i \in 1..Len(l) |-> l[i].tag]
Selected(repo, name) ==
    \E i \in 1..Len(log) :
        /\ log[i].msg \in {"should be removed", "Removing"}
        /\ log[i].repo = repo
        /\ log[i].tag = name

\* name is sha256-<k lower-case hex digits><suffix>
DerivedName(name, k, suffix) ==
    /\ k >= 1
    /\ Len(name) = Len(Sha256Dash) + k + Len(suffix)
    /\ name = Sha256Dash \o SubSeq(name, Len(Sha256Dash) + 1, Len(Sha256Dash) + k)
                \o suffix
    /\ \A i \in (Len(Sha256Dash) + 1)..(Len(Sha256Dash) + k) : name[i] \in HexDigits
IsDerivedName(name) ==
    \E k \in 1..Len(name) : \E suffix \in Suffixes : DerivedName(name, k, suffix)

\* tag is a derived-artifact tag whose digest is the manifest_digest of no tag of list
OrphanIn(list, tag) ==
    \E k \in 1..Len(tag.name) : \E suffix \in Suffixes :
        /\ DerivedName(tag.name, k, suffix)
        /\ \A j \in 1..Len(list) :
            list[j].manifest_digest #
                Sha256Colon \o SubSeq(tag.name, Len(Sha256Dash) + 1, Len(Sha256Dash) + k)

\* the names of the orphaned tags among the first n of list, in the order of the list
OrphanNames(list, n) ==
    Names(SelectSeq(SubSeq(list, 1, n), LAMBDA t : OrphanIn(list, t)))

\* a call whose status the code accepts
Accepted(call) ==
    IF call.op = "delete" THEN call.status \in {200, 204, 404} ELSE call.status = 200

C1_Reached(i) == i < tag_idx \/ (pc = "failed" /\ i = tag_idx)

(***************************************************************************)
(* C1.  A tag of the list remove_tags was given is selected for removal    *)
(* (logged as to be removed, or removed) if and only if its name is        *)
(* sha256-<lower-case hex>(.sbom|.att|.src|.sig) and sha256:<hex> is the   *)
(* manifest_digest of no tag of the list; a name that is not of that form  *)
(* is never selected.  Stated of every tag the loop has reached.           *)
(***************************************************************************)
C1_OrphanedIff ==
    \A i \in 1..Len(all_tags) :
        /\ C1_Reached(i) =>
            (Selected("r1", all_tags[i].name) <=> OrphanIn(all_tags, all_tags[i]))
        /\ ~C1_Reached(i) => ~Selected("r1", all_tags[i].name)
        /\ ~IsDerivedName(all_tags[i].name) => ~Selected("r1", all_tags[i].name)

\* remove_tags has returned from a list with an orphaned tag, a derived tag
\* that is kept and an upper-case name that is kept
C1_Witness ==
    /\ pc = "process"
    /\ \E i, j, k \in 1..Len(all_tags) :
        /\ Selected("r1", all_tags[i].name)
        /\ IsDerivedName(all_tags[j].name) /\ ~Selected("r1", all_tags[j].name)
        /\ all_tags[k].name = Name_upper /\ ~Selected("r1", Name_upper)

(***************************************************************************)
(* C9.  With QUAY_TOKEN absent or empty, or --namespace missing, main ends *)
(* with an error and no network call has been issued.                      *)
(***************************************************************************)
C9_NoCallOnBadConfig ==
    (token = None \/ token = Some("") \/ namespace = None) =>
        /\ calls = <<>>
        /\ pc \in {"main", "failed"}
        /\ pc = "failed" => error # None

C9_Witness ==
    /\ pc = "failed"
    /\ token = Some("")
    /\ namespace = Some("acme")
    /\ calls = <<>>

(***************************************************************************)
(* The tags of fetched[k] that remove_tags has gone through: all of them,  *)
(* or those before tag_idx while it is at work on the list.                *)
(***************************************************************************)
DoneOf(k) ==
    IF k = Len(fetched) /\ pc = "remove" THEN tag_idx - 1 ELSE Len(fetched[k].tags)

IsFetched(repo) == \E k \in 1..Len(fetched) : fetched[k].repo = repo

(***************************************************************************)
(* C2.  In a dry run no DELETE call is issued and the registry keeps the   *)
(* tags it started with; each orphaned tag of a fetched list gets exactly  *)
(* one "should be removed" record, in the order of the list, and nothing   *)
(* else does.                                                              *)
(***************************************************************************)
C2_DryRunNoDelete ==
    dry_run =>
        /\ DeleteCalls = <<>>
        /\ registry = registry0
        /\ \A k \in 1..Len(fetched) :
            /\ LoggedFor("should be removed", fetched[k].repo)
                    = OrphanNames(fetched[k].tags, DoneOf(k))
            /\ LoggedFor("Removing", fetched[k].repo) = <<>>
        /\ \A i \in 1..Len(log) :
            log[i].msg # "Processing repository" => IsFetched(log[i].repo)

\* a dry run is over; both repositories had orphaned tags, r1 two of them
C2_Witness ==
    /\ dry_run
    /\ pc = "done"
    /\ Len(LoggedFor("should be removed", "r1")) >= 2
    /\ Len(LoggedFor("should be removed", "r2")) >= 1

(***************************************************************************)
(* C3.  A call answered with a status the code does not accept (a delete   *)
(* with anything but 200, 204 or 404, a list call with anything but 200)   *)
(* is the last call of the run: main has ended with the error.             *)
(***************************************************************************)
C3_FatalResponse ==
    \A i \in 1..Len(calls) :
        ~Accepted(calls[i]) =>
            /\ i = Len(calls)
            /\ pc = "failed"
            /\ error # None

\* a delete was answered 500 while the list still holds an orphaned tag after
\* this one and the batch holds another repository
C3_Witness ==
    /\ pc = "failed"
    /\ calls # <<>>
    /\ calls[Len(calls)].op = "delete"
    /\ calls[Len(calls)].status = 500
    /\ \E i \in (tag_idx + 1)..Len(all_tags) : OrphanIn(all_tags, all_tags[i])
    /\ repo_idx < Len(image_repos)

C4_DeleteStep(statuses) ==
    /\ Len(calls') = Len(calls) + 1
    /\ calls'[Len(calls')].op = "delete"
    /\ calls'[Len(calls')].status \in statuses

C4_Continues ==
    /\ pc' = "remove"
    /\ error' = None
    /\ tag_idx' = tag_idx + 1
    /\ UNCHANGED <<all_tags, image_repos, repo_idx, next_page, json_next_page>>

(***************************************************************************)
(* C4.  A delete answered 404 does not raise: remove_tags goes on to the   *)
(* next tag of the list with nothing else changed, as after 200 or 204.    *)
(***************************************************************************)
C4_NotFoundIsSuccess ==
    [][/\ C4_DeleteStep({404}) => C4_Continues
       /\ C4_DeleteStep({200, 204}) => C4_Continues]_vars

\* a run that got 404 for a delete went on to list the tags of the next
\* repository and came to its end
C4_Witness ==
    /\ pc = "done"
    /\ \E i, j \in 1..Len(calls) :
        /\ i < j
        /\ calls[i].op = "delete" /\ calls[i].status = 404
        /\ calls[j].op = "tags" /\ calls[j].repo # calls[i].repo

(***************************************************************************)
(* C5.  In a live run in which no call has failed, the DELETE calls for a  *)
(* repository are exactly the orphaned entries of its fetched tag list,    *)
(* one call per entry, by name, in the order of the list; no DELETE is     *)
(* issued for a repository whose list was not fetched, and none for an     *)
(* empty list.                                                             *)
(***************************************************************************)
C5_LiveDeletes ==
    (~dry_run /\ pc # "failed") =>
        /\ \A k \in 1..Len(fetched) :
            DeletesFor(fetched[k].repo) = OrphanNames(fetched[k].tags, DoneOf(k))
        /\ \A i \in 1..Len(calls) :
            calls[i].op = "delete" => IsFetched(calls[i].repo)

\* a live run is over: r1 got two deletes for different tags and kept a tag,
\* r2's list was empty
C5_Witness ==
    /\ ~dry_run
    /\ pc = "done"
    /\ \E k \in 1..Len(fetched) :
        /\ fetched[k].repo = "r1"
        /\ Len(DeletesFor("r1")) = 2
        /\ DeletesFor("r1")[1] # DeletesFor("r1")[2]
    /\ \E k \in 1..Len(fetched) :
        /\ fetched[k].repo = "r2"
        /\ fetched[k].tags = <<>>

C6_FetchedAll ==
    \A k \in 1..Len(fetched) :
        {fetched[k].tags[i] : i \in 1..Len(fetched[k].tags)}
            = {registry0[fetched[k].repo][i] :
                    i \in 1..Len(registry0[fetched[k].repo])}

(***************************************************************************)
(* C6.  After a live run that ended without error and fetched every tag of *)
(* the repositories it processed, every derived-artifact tag left in such  *)
(* a repository has its digest among the manifest_digests of the tags left *)
(* in it (so a second run would find no orphan and issue no DELETE).       *)
(***************************************************************************)
C6_NoOrphanLeft ==
    (pc = "done" /\ ~dry_run /\ C6_FetchedAll) =>
        \A k \in 1..Len(fetched) :
            LET left == registry[fetched[k].repo]
            IN  \A i \in 1..Len(left) : ~OrphanIn(left, left[i])

C7_Batches(T) ==
    LET F[i \in 0..Len(T)] == IF i = 0 THEN <<>> ELSE F[i - 1] \o T[i].tags
    IN  F[Len(T)]

C7_More(call) == call.status = 200 /\ call.has_additional /\ call.tags # <<>>

C7_Requests(repo) ==
    LET T == TagsCallsFor(repo)
    IN  /\ T # <<>> => T[1].page = None
        /\ \A j \in 2..Len(T) :
            /\ C7_More(T[j - 1])
            /\ T[j].page = Some(T[j - 1].resp_page + 1)
        /\ (pc = "tags" /\ CurrentRepo = repo /\ T # <<>>) => C7_More(T[Len(T)])
        /\ IsFetched(repo) =>
            /\ T # <<>>
            /\ T[Len(T)].status = 200
            /\ ~C7_More(T[Len(T)])

(***************************************************************************)
(* C7.  get_quay_tags: the first request has no page parameter, each       *)
(* following one has the page of the previous response plus one, a request *)
(* follows exactly when the response had has_additional and a non-empty    *)
(* batch, and the list returned is the batches of all the pages fetched,   *)
(* one after the other: a tag returned on two pages is in it twice.        *)
(***************************************************************************)
C7_ListTags ==
    /\ \A repo \in Repos : C7_Requests(repo)
    /\ \A k \in 1..Len(fetched) :
        fetched[k].tags = C7_Batches(TagsCallsFor(fetched[k].repo))
    /\ pc = "tags" => all_tags = C7_Batches(TagsCallsFor(CurrentRepo))

\* C7 with "deduplicated": the paging as above, and the list returned holds
\* every tag of every page fetched and no tag twice
C7_Deduplicated ==
    /\ \A repo \in Repos : C7_Requests(repo)
    /\ \A k \in 1..Len(fetched) :
        /\ \A j \in 1..Len(TagsCallsFor(fetched[k].repo)) :
            \A i \in 1..Len(TagsCallsFor(fetched[k].repo)[j].tags) :
                InList(TagsCallsFor(fetched[k].repo)[j].tags[i], fetched[k].tags)
        /\ NoRepeat(fetched[k].tags)

\* a list was returned from two pages that both held the same tag
C7_Witness ==
    \E k \in 1..Len(fetched) :
        /\ Len(TagsCallsFor(fetched[k].repo)) = 2
        /\ TagsCallsFor(fetched[k].repo)[2].page = Some(2)
        /\ ~NoRepeat(fetched[k].tags)

C8_More(call) ==
    call.status = 200 /\ call.repositories # <<>> /\ call.next_page # None

C8_NonEmpty ==
    LET R == SelectSeq(ReposCalls,
                       LAMBDA c : c.status = 200 /\ c.repositories # <<>>)
    IN  [i \in 1..Len(R) |-> R[i].repositories]

(***************************************************************************)
(* C8.  fetch_image_repos: the first request has no cursor, each following *)
(* one has the next_page of the previous response; a request follows       *)
(* exactly when the response had a non-empty batch and a cursor; the       *)
(* batches yielded are the non-empty batches of the responses, in order,   *)
(* each once.                                                              *)
(***************************************************************************)
C8_ListRepositories ==
    LET R == ReposCalls
    IN  /\ R # <<>> => R[1].cursor = None
        /\ \A j \in 2..Len(R) :
            /\ C8_More(R[j - 1])
            /\ R[j].cursor = R[j - 1].next_page
        /\ yielded = C8_NonEmpty
        /\ pc = "fetch" => (R = <<>> \/ C8_More(R[Len(R)]))
        /\ pc = "done" =>
            /\ R # <<>>
            /\ R[Len(R)].status = 200
            /\ ~C8_More(R[Len(R)])

\* the listing ended at an empty batch that carried a cursor, after one batch
C8_Witness ==
    /\ pc = "done"
    /\ Len(ReposCalls) = 2
    /\ ReposCalls[2].repositories = <<>>
    /\ ReposCalls[2].next_page # None
    /\ yielded = <<ReposCalls[1].repositories>>

C10_Complete(k) ==
    IF dry_run
    THEN LoggedFor("should be removed", fetched[k].repo)
            = OrphanNames(fetched[k].tags, Len(fetched[k].tags))
    ELSE DeletesFor(fetched[k].repo)
            = OrphanNames(fetched[k].tags, Len(fetched[k].tags))

C10_IsPrefix(s, t) == Len(s) <= Len(t) /\ s = SubSeq(t, 1, Len(s))

\* the repositories of the batches yielded by all list calls but the last
C10_YieldedBefore ==
    LET R == ReposCalls
        F[i \in 0..Len(R)] == IF i = 0 THEN <<>> ELSE F[i - 1] \o R[i].repositories
    IN  IF R = <<>> THEN <<>> ELSE F[Len(R) - 1]

C10_Last == calls[Len(calls)]

(***************************************************************************)
(* C10.  The calls are issued one repository and one page at a time.  A    *)
(* delete is issued right after the tag listing (or a delete) of its own   *)
(* repository.  When the tags of a repository are first asked for, and     *)
(* when a further page of repositories is asked for, every repository      *)
(* yielded before has had its tags listed and all its orphaned tags        *)
(* deleted (reported, in a dry run); the repositories are taken in the     *)
(* order they were yielded.  While a batch is processed there have been as *)
(* many list-repositories calls as batches yielded, so a run that fails    *)
(* while processing page k has not asked for page k+1.                     *)
(***************************************************************************)
C10_SequentialLazy ==
    /\ \A i \in 1..Len(calls) :
        calls[i].op = "delete" =>
            /\ i > 1
            /\ calls[i - 1].op \in {"tags", "delete"}
            /\ calls[i - 1].repo = calls[i].repo
    /\ C10_IsPrefix([k \in 1..Len(fetched) |-> fetched[k].repo], Flatten(yielded))
    /\ pc \in {"process", "tags", "remove"} => Len(ReposCalls) = Len(yielded)
    /\ (pc = "failed" /\ calls # <<>> /\ C10_Last.op # "repos") =>
            Len(ReposCalls) = Len(yielded)
    /\ (calls # <<>> /\ C10_Last.op = "tags" /\ C10_Last.page = None) =>
            /\ \A k \in 1..Len(fetched) :
                fetched[k].repo # C10_Last.repo => C10_Complete(k)
            /\ Len(fetched) >= 1 /\ fetched[Len(fetched)].repo # C10_Last.repo =>
                    Flatten(yielded)[Len(fetched) + 1] = C10_Last.repo
            /\ Len(fetched) >= 1 /\ fetched[Len(fetched)].repo = C10_Last.repo =>
                    Flatten(yielded)[Len(fetched)] = C10_Last.repo
            /\ Len(fetched) = 0 => Flatten(yielded)[1] = C10_Last.repo
    /\ (calls # <<>> /\ C10_Last.op = "repos") =>
            /\ [k \in 1..Len(fetched) |-> fetched[k].repo] = C10_YieldedBefore
            /\ \A k \in 1..Len(fetched) : C10_Complete(k)

\* a live run is over: two pages of repositories, a delete in each
C10_Witness ==
    /\ pc = "done"
    /\ ~dry_run
    /\ Len(yielded) = 2
    /\ DeletesFor("r1") # <<>>
    /\ DeletesFor("r2") # <<>>

====
